---- MODULE Spec2Model ----
(***************************************************************************)
(* Dependency graph of a PsychSim world (src/graph.py): construction of    *)
(* the graph from the world's declarative tables, Kahn-style layering with *)
(* ancestor accumulation, the evaluation order, and the lazy cache that    *)
(* the read accessors of DependencyGraph keep.                             *)
(***************************************************************************)
EXTENDS Integers, Sequences, FiniteSets, TLC

VARIABLES world, graph, root, layers, evaluation, pc, caller, level, result,
          nGraph, nLineage, nEval,
          mapFile, generation, stage, regionMap, starts, state, prediction, sampled

\* the dependency graph object and the tables it reads
graphVars == <<world, graph, root, layers, evaluation, pc, caller, level, result,
               nGraph, nLineage, nEval>>

\* the game: the map it was created from, world.state[None], and what the
\* last calls of predictResult and sampleAction returned
gameVars == <<mapFile, generation, stage, regionMap, starts, state, prediction, sampled>>

vars == <<graphVars, gameVars>>

(***************************************************************************)
(* Bounds of the model.                                                    *)
(***************************************************************************)
\* cap on the iterations of the layering loop (only reached on cyclic graphs)
MaxLevel == 7
\* cap on the per-epoch run counters
MaxRuns == 3

(***************************************************************************)
(* Identifiers.  The graph is one dict keyed by state-key strings, agent   *)
(* names and ActionSets; every identifier is a record of one shape with a  *)
(* tag saying which of the three it is.                                    *)
(***************************************************************************)
NodeId(tag, entity, feature, future, atoms) ==
    [tag |-> tag, entity |-> entity, feature |-> feature, future |-> future,
     atoms |-> atoms]

\* world.stateKey(entity, feature, future=False)
stateKey(entity, feature, future) == NodeId("state", entity, feature, future, {})

\* world.binaryKey(subject, object, relation)
binaryKey(subject, object, relation) ==
    NodeId("binary", subject, relation, FALSE, {})

\* world.makeFuture(key): the post-tagged form of a key, entity/feature kept
makeFuture(key) == [key EXCEPT !.future = TRUE]

\* world.makePresent(key): the pre-tagged form of a key, entity/feature kept
makePresent(key) == [key EXCEPT !.future = FALSE]

\* world.isTurnKey(key)
isTurnKey(key) == key.tag = "state" /\ key.feature = "_turn"

\* pwl.CONSTANT, the pseudo-key of the constant column of a tree
CONSTANT_KEY == NodeId("const", "", "", FALSE, {})

\* an atomic action: subject, verb, object and one free parameter (0: none)
Atom(subject, verb, object, amount) ==
    [subject |-> subject, verb |-> verb, object |-> object, amount |-> amount]

\* Action.root(): only the special fields subject, verb and object are kept
rootAtom(a) == [a EXCEPT !.amount = 0]

\* rootAction with the atoms left as they are
rootActionUnreduced(action) == NodeId("action", "", "", FALSE, action)

\* ActionSet([a.root() for a in action]) as the dict key of an action node
rootAction(action) == NodeId("action", "", "", FALSE, {rootAtom(a) : a \in action})

\* an ActionSet used as a dict key without root reduction (dynamics tables)
actionKey(action) == NodeId("action", "", "", FALSE, action)

\* the dict key of an agent's utility node: the agent's name
nameKey(name) == NodeId("agent", name, "", FALSE, {})

(***************************************************************************)
(* Option values: None is the empty sequence, a value v is <<v>>.          *)
(***************************************************************************)
None == << >>
Some(v) == <<v>>

EmptyDict == [n \in {} |-> 0]

(***************************************************************************)
(* The declarative tables of a world, as far as the graph reads them.      *)
(*   locals     world.locals: the declared unary variables <<entity,feature>>*)
(*   relations  world.relations: the declared relation keys, with subject  *)
(*   agents     world.agents in dict order; of each agent its name, its    *)
(*              reward trees R (models[True]['R']), its actions and its    *)
(*              legality table                                             *)
(*   dynamics   world.dynamics: key -> boolean sentinel or action table    *)
(* A tree is represented by the set of keys it references (getKeysIn).     *)
(***************************************************************************)
Agent(name, R, actions, legal) ==
    [name |-> name, R |-> R, actions |-> actions, legal |-> legal]

Legal(action, tree) == [action |-> action, tree |-> tree]

\* a dynamics entry that is a bool (isinstance(dynamics,bool))
Sentinel == [isBool |-> TRUE, table |-> {}]

\* a dynamics entry that is a table action -> tree; wildcard is the key True
Table(entries) == [isBool |-> FALSE, table |-> entries]
OnAny(tree) == [wildcard |-> TRUE, action |-> {}, tree |-> tree]
OnAction(action, tree) == [wildcard |-> FALSE, action |-> action, tree |-> tree]

World(locals, relations, agents, dynamics) ==
    [locals |-> locals, relations |-> relations, agents |-> agents,
     dynamics |-> dynamics]

(***************************************************************************)
(* The worlds explored.                                                    *)
(***************************************************************************)
X == stateKey("A", "x", FALSE)
Y == stateKey("A", "y", FALSE)
\* a key no world declares
Z == stateKey("A", "z", FALSE)
\* a turn key
TURN == stateKey("A", "_turn", FALSE)
REL == binaryKey("A", "B", "likes")

Go1 == {Atom("A", "go", "x", 1)}
Go2 == {Atom("A", "go", "x", 2)}
GoRoot == {Atom("A", "go", "x", 0)}
Stay == {Atom("A", "stay", "", 0)}

LocalsChoices ==
    { {},
      {<<"A", "x">>, <<"A", "y">>},
      {<<"A", "x">>, <<"A", "y">>, <<"A", "_turn">>} }

RelationsChoices == {{}, {[key |-> REL, subject |-> "A"]}}

AgentsChoices ==
    { << >>,
      <<Agent("A", {{Y}}, {}, {})>>,
      <<Agent("A", {{Y}}, {GoRoot}, {})>>,
      <<Agent("A", {{X}, {Y, CONSTANT_KEY}}, {Go1, Go2},
              {Legal(Go1, {makeFuture(X)})})>>,
      <<Agent("A", {}, {GoRoot, Stay}, {Legal(Stay, {makeFuture(Y)})})>>,
      <<Agent("A", {{Z}}, {}, {})>>,
      <<Agent("A", {}, {}, {Legal(Go1, {X})})>>,
      <<Agent("A", {{Y}}, {Go1}, {Legal(Go1, {X})}),
        Agent("B", {}, {Go2, Stay}, {Legal(Go2, {Y})})>> }

DynXChoices ==
    { EmptyDict,
      X :> Sentinel,
      X :> Table({OnAny({X})}),
      X :> Table({OnAny({makeFuture(Y)})}),
      X :> Table({OnAction(GoRoot, {X, CONSTANT_KEY})}) }

DynYChoices ==
    { EmptyDict,
      Y :> Sentinel,
      Y :> Table({OnAny({makeFuture(X)})}),
      Y :> Table({OnAction(GoRoot, {Y}), OnAction(Stay, {makeFuture(X)})}),
      Y :> Table({OnAny({Z})}),
      Y :> Table({OnAny({makeFuture(X), makeFuture(REL)})}) }

DynOtherChoices ==
    { EmptyDict,
      TURN :> Table({OnAny({TURN, Z})}),
      REL :> Sentinel,
      REL :> Table({OnAny({makeFuture(Y)})}) }

Worlds ==
    { World(l, r, a, dx @@ dy @@ do) :
        l \in LocalsChoices, r \in RelationsChoices, a \in AgentsChoices,
        dx \in DynXChoices, dy \in DynYChoices, do \in DynOtherChoices }

(***************************************************************************)
(* The world of the Team of Rivals game (src/examples/teamofrivals.py), as *)
(* far as the graph reads it.  The turn variables that setOrder keeps are  *)
(* left out: computeGraph skips their dynamics.                            *)
(***************************************************************************)
\* the entity of a feature of the world itself: stateKey(None,feature)
WORLD == ""

\* 'Player%d' % (player+1)
PlayerName(player) == <<"Player1", "Player2", "Player3", "Player4">>[player + 1]

\* Action({'subject': name,'verb': 'generate'})
Generate(name) == {Atom(name, "generate", "", 0)}

\* createWorld (lines 566-766): regionTable is the sequence of the region
\* names, first the region that list(regions)[0] happens to be
createWorld(numPlayers, regionTable, first) ==
    LET regions == {regionTable[i] : i \in 1..Len(regionTable)}
        players == {PlayerName(p) : p \in 0..(numPlayers - 1)}
        round == stateKey(WORLD, "round", FALSE)
        booleans ==
            {stateKey(r, f, FALSE) : r \in regions, f \in {"invaders", "invader", "owner"}}
            \cup {stateKey(p, f, FALSE) : p \in players, f \in {"territory", "value", "resources"}}
            \cup {stateKey(WORLD, "phase", FALSE)}
    IN  World(
          {<<r, f>> : r \in regions,
                      f \in {"occupants", "value", "invaders", "owner", "invader"}}
            \cup {<<p, f>> : p \in players, f \in {"resources", "territory", "value"}}
            \cup {<<WORLD, "phase">>, <<WORLD, "round">>},
          {},
          [i \in 1..Len(regionTable) |-> Agent(regionTable[i], {}, {Generate(regionTable[i])}, {})]
            \o [p \in 1..numPlayers |->
                  Agent(PlayerName(p - 1), {{stateKey(PlayerName(p - 1), "value", FALSE)}}, {}, {})]
            \o <<Agent("Enemy", {}, {}, {})>>,
          [key \in booleans \cup {round} |->
              IF key = round
              THEN Table({OnAction(Generate(first), {round, CONSTANT_KEY})})
              ELSE Sentinel])

RegionTables == {<<"R1">>, <<"R1", "R2">>}

RivalWorlds ==
    UNION { {createWorld(n, t, t[i]) : i \in 1..Len(t)} :
              n \in 1..2, t \in RegionTables }

(***************************************************************************)
(* computeGraph (src/graph.py:43-113).                                     *)
(* A node record holds the dict keys present in it (keys) and a value for  *)
(* each; 'ancestors' and 'level' are absent until computeLineage adds them.*)
(***************************************************************************)
NewNode(agent, type) ==
    [agent |-> agent, type |-> type, children |-> {}, parents |-> {},
     ancestors |-> {}, level |-> 0,
     keys |-> {"agent", "type", "children", "parents"}]

Indices(w) == 1..Len(w.agents)

\* the unary state features: a pre and a post node of each
UnaryNodes(w) == {stateKey(v[1], v[2], f) : v \in w.locals, f \in BOOLEAN}

\* the binary state features: a pre and a post node of each relation key
BinaryNodes(w) ==
    {e.key : e \in w.relations} \cup {makeFuture(e.key) : e \in w.relations}

\* agent.getAttribute('R',True) is true of a non-empty reward table
HasReward(agent) == agent.R # {}

\* the agent reward nodes
UtilityNodes(w) == {nameKey(w.agents[i].name) : i \in {j \in Indices(w) : HasReward(w.agents[j])}}

\* the action nodes, one per root-reduced action
ActionNodes(w) == {rootAction(a) : a \in UNION {w.agents[i].actions : i \in Indices(w)}}

GraphNodes(w) == UnaryNodes(w) \cup BinaryNodes(w) \cup UtilityNodes(w) \cup ActionNodes(w)

\* the agent whose loop iteration creates the node of a root action: the
\* first one, in dict order, with an action of that root
ActionOwner(w, n) ==
    LET owners == {i \in Indices(w) : \E a \in w.agents[i].actions : rootAction(a) = n}
    IN  w.agents[CHOOSE i \in owners : \A j \in owners : i <= j].name

\* the record a node is created with
CreatedNode(w, n) ==
    CASE n.tag = "state" ->
           NewNode(n.entity, IF n.future THEN "state post" ELSE "state pre")
      [] n.tag = "binary" ->
           NewNode((CHOOSE e \in w.relations : e.key = makePresent(n)).subject,
                   IF n.future THEN "state post" ELSE "state pre")
      [] n.tag = "agent" -> NewNode(n.entity, "utility")
      [] OTHER -> NewNode(ActionOwner(w, n), "action")

\* the dynamics keys whose entries create links: neither turn keys nor bools
LinkedDynamics(w) ==
    {key \in DOMAIN w.dynamics : ~isTurnKey(key) /\ ~w.dynamics[key].isBool}

\* DynamicsLinks without the links from the actions that key an entry
DynamicsLinksTreesOnly(w) ==
    UNION { UNION { {<<parent, makeFuture(key)>> : parent \in e.tree \ {CONSTANT_KEY}}
                    : e \in w.dynamics[key].table }
            : key \in LinkedDynamics(w) }

\* links <<parent, child>> from dynamics: action -> feature, variable -> feature
DynamicsLinks(w) ==
    UNION { UNION { (IF e.wildcard THEN {} ELSE {<<actionKey(e.action), makeFuture(key)>>})
                    \cup {<<parent, makeFuture(key)>> : parent \in e.tree \ {CONSTANT_KEY}}
                    : e \in w.dynamics[key].table }
            : key \in LinkedDynamics(w) }

\* RewardLinks without the makeFuture of lines 104-105
RewardLinksPresent(w) ==
    UNION { UNION { {<<parent, nameKey(w.agents[i].name)>> :
                        parent \in R \ {CONSTANT_KEY}}
                    : R \in w.agents[i].R }
            : i \in Indices(w) }

\* links from reward: future variable -> agent utility
RewardLinks(w) ==
    UNION { UNION { {<<makeFuture(parent), nameKey(w.agents[i].name)>> :
                        parent \in R \ {CONSTANT_KEY}}
                    : R \in w.agents[i].R }
            : i \in Indices(w) }

\* links from legality: prerequisite variable -> root action
LegalityLinks(w) ==
    UNION { UNION { {<<parent, rootAction(l.action)>> : parent \in l.tree \ {CONSTANT_KEY}}
                    : l \in w.agents[i].legal }
            : i \in Indices(w) }

Links(w) == DynamicsLinks(w) \cup RewardLinks(w) \cup LegalityLinks(w)

\* assert key in self (line 85): a non-turn dynamics key that is no node
UnaccountedKey(w) ==
    \E key \in DOMAIN w.dynamics : ~isTurnKey(key) /\ key \notin GraphNodes(w)

\* UnaccountedLink with the variables a tree references left unchecked
UnaccountedActionOnly(w) ==
    \E l \in Links(w) : l[1].tag = "action" /\ l[1] \notin GraphNodes(w)

\* assert action in self (lines 91, 111) and the KeyError of dict.__getitem__
\* (lines 92-113): a link one of whose ends is no node
UnaccountedLink(w) ==
    \E l \in Links(w) : l[1] \notin GraphNodes(w) \/ l[2] \notin GraphNodes(w)

\* computeGraph raises
ComputeGraphFails(w) == UnaccountedKey(w) \/ UnaccountedLink(w)

\* the dict computeGraph leaves when it returns normally
ComputeGraph(w) ==
    [n \in GraphNodes(w) |->
        [CreatedNode(w, n) EXCEPT
            !.parents = {l[1] : l \in {k \in Links(w) : k[2] = n}},
            !.children = {l[2] : l \in {k \in Links(w) : k[1] = n}}]]

(***************************************************************************)
(* computeLineage (src/graph.py:130-162).  Python lists start at 0: the    *)
(* layer of level i is the element i+1 of the sequence.                    *)
(***************************************************************************)
Layer(seq, i) == seq[i + 1]

\* sum(map(len,self.layers))
RECURSIVE SumLen(_)
SumLen(seq) ==
    IF seq = << >> THEN 0 ELSE Cardinality(Head(seq)) + SumLen(Tail(seq))

\* LineageStart without the level of line 140
LineageStartNoLevel(g) ==
    [n \in DOMAIN g |->
        [g[n] EXCEPT !.ancestors = g[n].parents, !.keys = @ \cup {"ancestors"}]]

\* lines 136-141: ancestors start as the parents, parentless nodes get level 0
LineageStart(g) ==
    [n \in DOMAIN g |->
        IF g[n].parents = {}
        THEN [g[n] EXCEPT !.ancestors = g[n].parents, !.level = 0,
                          !.keys = @ \cup {"ancestors", "level"}]
        ELSE [g[n] EXCEPT !.ancestors = g[n].parents,
                          !.keys = @ \cup {"ancestors"}]]

\* lines 138-140: the root set
RootNodes(g) == {n \in DOMAIN g : g[n].parents = {}}

\* Eligible with the test passed as soon as one parent is placed
EligibleAnyParent(g, child, lvl) ==
    \E parent \in g[child].parents :
        /\ parent \in DOMAIN g
        /\ "level" \in g[parent].keys
        /\ g[parent].level <= lvl

\* lines 152-158: every parent has a level, and none above the current one
Eligible(g, child, lvl) ==
    \A parent \in g[child].parents :
        /\ parent \in DOMAIN g
        /\ "level" \in g[parent].keys
        /\ g[parent].level <= lvl

\* lines 145-158: the new layer, the eligible children of the current layer
NewLayer(g, current, lvl) ==
    {child \in (UNION {g[key].children : key \in current}) \cap DOMAIN g :
        Eligible(g, child, lvl)}

\* LayerPass without the update of the ancestors on line 149
LayerPassKeepAncestors(g, current, lvl) ==
    [n \in DOMAIN g |->
        LET placed == n \in NewLayer(g, current, lvl)
        IN  [g[n] EXCEPT
                !.level = IF placed THEN lvl + 1 ELSE @,
                !.keys = IF placed THEN @ \cup {"level"} ELSE @]]

\* lines 146-159: the dict after one pass over the current layer.  No node of
\* a layer is a child of a node of the same layer, so the pass reads the
\* ancestors and levels that stood when it began.
LayerPass(g, current, lvl) ==
    [n \in DOMAIN g |->
        LET via == {key \in current : n \in g[key].children}
            placed == n \in NewLayer(g, current, lvl)
        IN  [g[n] EXCEPT
                !.ancestors = @ \cup UNION {g[key].ancestors : key \in via},
                !.level = IF placed THEN lvl + 1 ELSE @,
                !.keys = IF placed THEN @ \cup {"level"} ELSE @]]

\* Unplaced with <= for <
UnplacedOrAll(g, lays) == SumLen(lays) <= Cardinality(DOMAIN g)

\* line 144: the loop condition
Unplaced(g, lays) == SumLen(lays) < Cardinality(DOMAIN g)

(***************************************************************************)
(* computeEvaluation (src/graph.py:164-175).                               *)
(***************************************************************************)
\* PostKey without the future flag of line 172
PostKeyPresent(v) == stateKey(v[1], v[2], FALSE)

\* line 172: key = world.stateKey(agent,feature,True)
PostKey(v) == stateKey(v[1], v[2], TRUE)

\* self[key]['level'] raises KeyError
EvaluationFails(w, g) ==
    \E v \in w.locals : PostKey(v) \notin DOMAIN g \/ "level" \notin g[PostKey(v)].keys

\* Evaluation without the makePresent of line 175
EvaluationFutureKeys(w, g) ==
    LET lv(v) == g[stateKey(v[1], v[2], TRUE)].level
        top == IF w.locals = {} THEN 0
               ELSE 1 + lv(CHOOSE v \in w.locals : \A u \in w.locals : lv(u) <= lv(v))
    IN  [i \in 1..top |-> {stateKey(v[1], v[2], TRUE) : v \in {u \in w.locals : lv(u) = i - 1}}]

\* lines 169-175: one set per level up to the highest level of a post key
Evaluation(w, g) ==
    LET lv(v) == g[PostKey(v)].level
        top == IF w.locals = {} THEN 0
               ELSE 1 + lv(CHOOSE v \in w.locals : \A u \in w.locals : lv(u) <= lv(v))
    IN  [i \in 1..top |-> {makePresent(PostKey(v)) : v \in {u \in w.locals : lv(u) = i - 1}}]

(***************************************************************************)
(* The DependencyGraph object and its operations.                          *)
(*   graph       the dict contents                                         *)
(*   root, layers, evaluation   the cached attributes (None until set)     *)
(*   pc          "idle": no call in progress; "lineage": inside the while  *)
(*               loop of computeLineage; "error": a call raised            *)
(*   caller      the accessor on whose behalf computeLineage runs          *)
(*   level       the loop variable of computeLineage                       *)
(*   result      what the last completed call returned                     *)
(*   nGraph, nLineage, nEval   runs of computeGraph, computeLineage and    *)
(*               computeEvaluation since the last clear()                  *)
(***************************************************************************)
Result(op, view, list) == [op |-> op, view |-> view, list |-> list]

NoResult == Result("none", EmptyDict, << >>)

\* every identifier a lookup may ask for
LookupKeys ==
    {makeFuture(X), Y, Z, makeFuture(REL), nameKey("A"), rootAction(Go1)}

\* DependencyGraph.__init__ (lines 12-15) over one of the worlds
Init ==
    /\ world \in Worlds \cup RivalWorlds
    /\ graph = EmptyDict
    /\ root = None
    /\ layers = None
    /\ evaluation = None
    /\ pc = "idle"
    /\ caller = ""
    /\ level = 0
    /\ result = NoResult
    /\ nGraph = 0
    /\ nLineage = 0
    /\ nEval = 0
    /\ mapFile = None
    /\ generation = "none"
    /\ stage = "start"
    /\ regionMap = EmptyDict
    /\ starts = << >>
    /\ state = None
    /\ prediction = None
    /\ sampled = None

\* clear (lines 17-21)
Clear ==
    /\ pc = "idle"
    /\ UNCHANGED gameVars
    /\ root' = None
    /\ layers' = None
    /\ evaluation' = None
    /\ graph' = EmptyDict
    /\ result' = NoResult
    /\ nGraph' = 0 /\ nLineage' = 0 /\ nEval' = 0
    /\ UNCHANGED <<world, pc, caller, level>>

\* len(self) == 0, the test every building accessor makes
IsEmpty(g) == DOMAIN g = {}

\* the argument of the accessors that take no key
NoKey == NodeId("none", "", "", FALSE, {})

\* what the dict method called after the build returns of the dict g:
\* dict.__getitem__ the entry of the key (KeyError, which leaves the object
\* as it is, when g does not hold it), dict.items/keys/values all of g
Returned(op, key, g) ==
    IF op = "getitem"
    THEN IF key \in DOMAIN g THEN key :> g[key] ELSE EmptyDict
    ELSE g

\* "if len(self) == 0: self.computeGraph()" followed by the dict method:
\* the call raises when computeGraph does
BuildThenRead(op, key) ==
    /\ pc = "idle"
    /\ UNCHANGED gameVars
    /\ IF IsEmpty(graph)
       THEN /\ nGraph < MaxRuns
            /\ nGraph' = nGraph + 1
            /\ IF ComputeGraphFails(world)
               THEN pc' = "error" /\ UNCHANGED <<graph, result>>
               ELSE /\ graph' = ComputeGraph(world)
                    /\ result' = Result(op, Returned(op, key, graph'), << >>)
                    /\ pc' = "idle"
       ELSE /\ result' = Result(op, Returned(op, key, graph), << >>)
            /\ UNCHANGED <<graph, pc, nGraph>>
    /\ UNCHANGED <<world, root, layers, evaluation, caller, level, nLineage, nEval>>

\* keys (lines 120-123)
Keys == BuildThenRead("keys", NoKey)

\* values (lines 125-128)
Values == BuildThenRead("values", NoKey)

\* items (lines 115-118)
Items == BuildThenRead("items", NoKey)

\* __getitem__ (lines 38-41)
GetItem == \E key \in LookupKeys : BuildThenRead("getitem", key)

\* iteration over the graph: dict.__iter__, which DependencyGraph inherits
Iterate ==
    /\ pc = "idle"
    /\ UNCHANGED gameVars
    /\ result' = Result("iter", graph, << >>)
    /\ UNCHANGED <<world, graph, root, layers, evaluation, pc, caller, level,
                   nGraph, nLineage, nEval>>

\* computeLineage up to its while loop (lines 134-143), entered from the
\* accessor c; self.items() on line 136 builds an empty dict first.  The call
\* in progress has returned nothing yet.
EnterLineage(c) ==
    /\ nLineage' = nLineage + 1
    /\ IF IsEmpty(graph)
       THEN /\ nGraph < MaxRuns
            /\ nGraph' = nGraph + 1
       ELSE UNCHANGED nGraph
    /\ IF IsEmpty(graph) /\ ComputeGraphFails(world)
       THEN /\ pc' = "error"
            /\ root' = Some({})
            /\ layers' = Some(<< >>)
            /\ UNCHANGED <<graph, caller, level>>
       ELSE LET built == IF IsEmpty(graph) THEN ComputeGraph(world) ELSE graph
            IN  /\ graph' = LineageStart(built)
                /\ root' = Some(RootNodes(built))
                /\ layers' = Some(<<RootNodes(built)>>)
                /\ level' = 0
                /\ caller' = c
                /\ pc' = "lineage"
    /\ result' = NoResult
    /\ UNCHANGED world

\* getLayers (lines 23-26)
GetLayers ==
    /\ pc = "idle"
    /\ UNCHANGED gameVars
    /\ IF layers = None
       THEN EnterLineage("getLayers") /\ UNCHANGED <<evaluation, nEval>>
       ELSE /\ result' = Result("getLayers", EmptyDict, layers[1])
            /\ UNCHANGED <<world, graph, root, layers, evaluation, pc, caller,
                           level, nGraph, nLineage, nEval>>

\* getRoot (lines 33-36)
GetRoot ==
    /\ pc = "idle"
    /\ UNCHANGED gameVars
    /\ IF root = None
       THEN EnterLineage("getRoot") /\ UNCHANGED <<evaluation, nEval>>
       ELSE /\ result' = Result("getRoot", EmptyDict, <<root[1]>>)
            /\ UNCHANGED <<world, graph, root, layers, evaluation, pc, caller,
                           level, nGraph, nLineage, nEval>>

\* computeEvaluation after its getLayers() call (lines 169-175), and the
\* return of getEvaluation
FinishEvaluation ==
    IF EvaluationFails(world, graph)
    THEN /\ pc' = "error"
         /\ evaluation' = Some(<< >>)
         /\ UNCHANGED result
    ELSE /\ evaluation' = Some(Evaluation(world, graph))
         /\ result' = Result("getEvaluation", EmptyDict, Evaluation(world, graph))
         /\ pc' = "idle"

\* getEvaluation (lines 28-31), computeEvaluation (lines 164-175)
GetEvaluation ==
    /\ pc = "idle"
    /\ UNCHANGED gameVars
    /\ IF evaluation = None
       THEN /\ nEval' = nEval + 1
            /\ IF layers = None
               THEN EnterLineage("getEvaluation") /\ UNCHANGED evaluation
               ELSE /\ FinishEvaluation
                    /\ UNCHANGED <<world, graph, root, layers, caller, level,
                                   nGraph, nLineage>>
       ELSE /\ result' = Result("getEvaluation", EmptyDict, evaluation[1])
            /\ UNCHANGED <<world, graph, root, layers, evaluation, pc, caller,
                           level, nGraph, nLineage, nEval>>

\* one iteration of the while loop of computeLineage (lines 144-162)
LineagePass ==
    /\ pc = "lineage"
    /\ UNCHANGED gameVars
    /\ Unplaced(graph, layers[1])
    /\ level < MaxLevel
    /\ graph' = LayerPass(graph, Layer(layers[1], level), level)
    /\ layers' = Some(Append(layers[1], NewLayer(graph, Layer(layers[1], level), level)))
    /\ level' = level + 1
    /\ UNCHANGED <<world, root, evaluation, pc, caller, result, nGraph, nLineage, nEval>>

\* the while loop ends, computeLineage returns, and the accessor that called
\* it completes
LineageReturn ==
    /\ pc = "lineage"
    /\ UNCHANGED gameVars
    /\ ~Unplaced(graph, layers[1])
    /\ level' = 0
    /\ caller' = ""
    /\ CASE caller = "getLayers" ->
              /\ result' = Result("getLayers", EmptyDict, layers[1])
              /\ pc' = "idle"
              /\ UNCHANGED evaluation
         [] caller = "getRoot" ->
              /\ result' = Result("getRoot", EmptyDict, <<root[1]>>)
              /\ pc' = "idle"
              /\ UNCHANGED evaluation
         [] OTHER -> FinishEvaluation
    /\ UNCHANGED <<world, graph, root, layers, nGraph, nLineage, nEval>>

Next ==
    \/ Clear
    \/ Keys
    \/ Values
    \/ Items
    \/ GetItem
    \/ Iterate
    \/ GetLayers
    \/ GetRoot
    \/ GetEvaluation
    \/ LineagePass
    \/ LineageReturn

Spec == Init /\ [][Next]_vars

\* a running call proceeds: the loop of computeLineage takes its next step
FairSpec == Spec /\ WF_vars(LineagePass) /\ WF_vars(LineageReturn)

(***************************************************************************)
(* The Team of Rivals game (src/examples/teamofrivals.py): the state the   *)
(* world is created with, the dynamics ResourceWorld.getDynamics gives each *)
(* key, one step of the world under them, and the game loop.               *)
(*   regionMap    region name -> its value, occupants (None when the map   *)
(*                gives none) and neighbors                                *)
(*   starts       the starting region of every player                      *)
(*   state        world.state[None]: a distribution over state vectors,    *)
(*                the weight of a vector being num[vector]/den             *)
(*   prediction   what the last predictResult returned (None: no call)     *)
(*   sampled      what the last sampleAction returned, with its arguments  *)
(***************************************************************************)
\* the most an atom of a chosen action allocates
MaxAmount == 1

\* the rounds a game is followed for
MaxRound == 2

\* line 91
nullAgent == "__none__"

\* line 631
Enemy == "Enemy"

\* ResourceWorld.__init__, line 97
carryOver == TRUE

\* line 249: what every player gains in a generate phase
MinimumGain == 5

Region(value, occupants, neighbors) ==
    [value |-> value, occupants |-> occupants, neighbors |-> neighbors]

\* the maps played: the region names in the order of regionTable.items(),
\* the table and the starting regions
GameMaps ==
    { [names |-> <<"R1", "R2">>,
       table |-> ("R1" :> Region(2, None, {"R2"})) @@ ("R2" :> Region(1, Some(2), {"R1"})),
       starts |-> <<"R1">>],
      [names |-> <<"R1", "R2">>,
       table |-> ("R1" :> Region(1, None, {})) @@ ("R2" :> Region(1, None, {})),
       starts |-> <<"R1">>],
      [names |-> <<"R1", "R2", "R3">>,
       table |-> ("R1" :> Region(1, None, {"R2"}))
                   @@ ("R2" :> Region(2, Some(1), {"R1", "R3"}))
                   @@ ("R3" :> Region(1, None, {"R2"})),
       starts |-> <<"R1", "R3">>],
      [names |-> <<"R1", "R2", "R3">>,
       table |-> ("R1" :> Region(1, None, {"R2", "R3"}))
                   @@ ("R2" :> Region(1, None, {"R1", "R3"}))
                   @@ ("R3" :> Region(2, None, {"R1", "R2"})),
       starts |-> <<"R1">>],
      [names |-> <<"R1", "R10", "R2">>,
       table |-> ("R1" :> Region(1, None, {"R2"}))
                   @@ ("R10" :> Region(2, None, {}))
                   @@ ("R2" :> Region(1, None, {"R1"})),
       starts |-> <<"R2">>] }

\* the players of a game
Players(st) == {PlayerName(p) : p \in 0..(Len(st) - 1)}

\* the state vector createWorld leaves (the setState calls of lines 586-654,
\* 736 and 761)
createState(table, st) ==
    [ phase |-> "generate",
      round |-> 0,
      owner |-> [r \in DOMAIN table |->
                    IF \E i \in 1..Len(st) : st[i] = r
                    THEN PlayerName((CHOOSE i \in 1..Len(st) :
                                        st[i] = r /\ \A j \in 1..Len(st) : st[j] = r => j <= i) - 1)
                    ELSE Enemy],
      invader |-> [r \in DOMAIN table |-> nullAgent],
      invaders |-> [r \in DOMAIN table |-> 0],
      occupants |-> [r \in DOMAIN table |->
                       IF table[r].occupants = None THEN table[r].value
                       ELSE table[r].occupants[1]],
      value |-> [r \in DOMAIN table |-> table[r].value],
      resources |-> [p \in Players(st) |-> 0],
      territory |-> [p \in Players(st) |-> 0],
      total |-> [p \in Players(st) |-> 0] ]

\* a distribution: the weight of a vector is num[vector]/den
Distribution(den, num) == [den |-> den, num |-> num]

\* the distribution of one certain vector
Certain(vector) == Distribution(1, vector :> 1)

\* len(distribution)
Support(dist) == DOMAIN dist.num

\* createWorld, line 575
allocateVerb == "allocate"

\* the sum of the amounts of a set of atoms
RECURSIVE SumAmounts(_)
SumAmounts(atoms) ==
    IF atoms = {} THEN 0
    ELSE LET a == CHOOSE x \in atoms : TRUE
         IN  a.amount + SumAmounts(atoms \ {a})

\* the sum and the product of the values a function has on a set
RECURSIVE SumOf(_, _)
SumOf(f, S) ==
    IF S = {} THEN 0
    ELSE LET x == CHOOSE y \in S : TRUE IN f[x] + SumOf(f, S \ {x})

RECURSIVE ProductOf(_, _)
ProductOf(f, S) ==
    IF S = {} THEN 1
    ELSE LET x == CHOOSE y \in S : TRUE IN f[x] * ProductOf(f, S \ {x})

\* the pairs of region names of which the first is the beginning of the
\* second
ProperPrefixes == {<<"R1", "R10">>}

\* key[:len(atom['object'])] == atom['object'] for a key of the entity obj
\* (lines 237, 272, 295): the key begins with the name of obj
KeyStartsWith(obj, name) == name = obj \/ <<name, obj>> \in ProperPrefixes

\* the atoms of an action that allocate to the object obj
AllocatingToThatObject(action, obj) ==
    {a \in action : a.verb = allocateVerb /\ a.object = obj}

\* the atoms of an action that count for a key of the entity obj (lines
\* 236-240, 271-276, 294-297)
AllocatingTo(action, obj) ==
    {a \in action : a.verb = allocateVerb /\ KeyStartsWith(obj, a.object)}

\* obj = atom['object'] (line 275) after the loop: the object of the atoms
\* that counted (in the games played they have one object)
AllocatedObject(action, obj) == (CHOOSE a \in AllocatingTo(action, obj) : TRUE).object

\* the atoms of an action by which a player allocates (lines 259-261)
AllocatingBy(action, player) ==
    {a \in action : a.verb = allocateVerb /\ a.subject = player}

\* the keys a step updates: all of them, or the keys it is restricted to
Updated(keys, entity, feature) ==
    keys = None \/ stateKey(entity, feature, FALSE) \in keys[1]

\* getDynamics of an 'invaders' key (lines 233-244)
InvadersDynamics(v, action, obj) ==
    LET total == SumAmounts(AllocatingTo(action, obj))
    IN  IF total > 0 THEN total ELSE v.invaders[obj]

\* ResourcesDynamics that gains from every region a player owns
ResourcesDynamicsOfOwned(v, action, player) ==
    IF v.phase = "generate"
    THEN v.resources[player] + 5
            + SumOf(v.value, {obj \in DOMAIN v.owner : v.owner[obj] = player})
    ELSE v.resources[player] - SumAmounts(AllocatingBy(action, player))

\* getDynamics of a 'resources' key (lines 245-267)
ResourcesDynamics(v, action, player) ==
    IF v.phase = "generate"
    THEN v.resources[player] + MinimumGain
            + SumOf(v.value, {obj \in DOMAIN v.owner :
                                v.owner[obj] = player /\ v.invader[obj] = player})
    ELSE IF carryOver
         THEN v.resources[player] - SumAmounts(AllocatingBy(action, player))
         ELSE IF AllocatingBy(action, player) = {} THEN v.resources[player] ELSE 0

\* getDynamics of an 'owner' key (lines 268-290): the odds of the invasion,
\* total against occupants; no branch when nobody allocates to the object
OwnerOdds(v, action, obj) ==
    LET total == SumAmounts(AllocatingTo(action, obj))
        defenders == IF total # 0 THEN v.occupants[AllocatedObject(action, obj)] ELSE 0
    IN  [branches |-> total # 0, win |-> total, lose |-> defenders,
         denominator |-> total + defenders]

\* getDynamics of an 'invader' key (lines 291-323): the values it may take,
\* each as likely as any other
InvaderDynamics(v, action, obj) ==
    LET atoms == AllocatingTo(action, obj)
    IN  IF atoms # {}
        THEN {a.subject : a \in {x \in atoms : \A y \in atoms : y.amount <= x.amount}}
        ELSE IF v.phase = "allocate" THEN {nullAgent} ELSE {v.invader[obj]}

\* InvaderShare with the number of amounts allocated for that of the winners
InvaderShareOfAmounts(v, action, obj) ==
    IF AllocatingTo(action, obj) = {} THEN 1
    ELSE Cardinality({a.amount : a \in AllocatingTo(action, obj)})

\* lines 304-311: each of the values of InvaderDynamics has the probability
\* 1/len(winners)
InvaderShare(v, action, obj) == Cardinality(InvaderDynamics(v, action, obj))

\* PhaseDynamics that gives no phase to an action without atoms
PhaseDynamicsOfAtoms(action) ==
    IF \E a \in action : a.verb = allocateVerb THEN "generate"
    ELSE IF \E a \in action : a.verb = "generate" THEN "allocate"
    ELSE "allocate"

\* getDynamics of the phase (lines 324-337), for an action whose atoms have
\* one verb
PhaseDynamics(action) ==
    IF \E a \in action : a.verb = allocateVerb THEN "generate"
    ELSE IF \E a \in action : a.verb = "generate" THEN "allocate"
    ELSE "generate"

\* TerritoryDynamics that counts the regions a player has just won only
TerritoryDynamicsOfWins(v, action, player) ==
    IF v.phase = "generate"
    THEN Cardinality({a \in action : a.subject \in DOMAIN v.owner
                                      /\ v.owner[a.subject] = player
                                      /\ v.invader[a.subject] = player})
    ELSE v.territory[player]

\* getDynamics of a 'territory' key (lines 338-348)
TerritoryDynamics(v, action, player) ==
    IF v.phase = "generate"
    THEN Cardinality({a \in action : a.subject \in DOMAIN v.owner
                                      /\ v.owner[a.subject] = player})
    ELSE v.territory[player]

\* getDynamics of the 'value' key of a player (lines 349-359)
ValueDynamics(v, action, player) ==
    IF v.phase = "generate"
    THEN SumOf(v.value, {r \in DOMAIN v.owner :
                            v.owner[r] = player /\ \E a \in action : a.subject = r})
    ELSE v.total[player]

\* World.getDynamics of the round: the tree createWorld sets (lines 762-765)
\* under the generate action of one region, an increment by 1
RoundDynamics(v, action, w) ==
    IF \E e \in w.dynamics[stateKey(WORLD, "round", FALSE)].table :
          ~e.wildcard /\ e.action \subseteq action
    THEN v.round + 1 ELSE v.round

\* the outcomes of one step for every region: who becomes its invader and
\* whether the invasion wins it
Branches(v, action, keys) ==
    {b \in [DOMAIN v.owner -> [leader : Players(starts) \cup {nullAgent}, win : BOOLEAN]] :
        \A obj \in DOMAIN v.owner :
            /\ b[obj].leader \in
                  (IF Updated(keys, obj, "invader")
                   THEN InvaderDynamics(v, action, obj) ELSE {v.invader[obj]})
            /\ b[obj].win =>
                  Updated(keys, obj, "owner") /\ OwnerOdds(v, action, obj).branches}

\* the weight of a branch over BranchDenominator: the product of the odds of
\* its invasions, the invaders being equally likely
BranchNumerator(v, action, keys, b) ==
    ProductOf([obj \in DOMAIN v.owner |->
                  IF Updated(keys, obj, "owner") /\ OwnerOdds(v, action, obj).branches
                  THEN IF b[obj].win THEN OwnerOdds(v, action, obj).win
                       ELSE OwnerOdds(v, action, obj).lose
                  ELSE 1],
              DOMAIN v.owner)

BranchDenominator(v, action, keys) ==
    ProductOf([obj \in DOMAIN v.owner |->
                  (IF Updated(keys, obj, "invader")
                   THEN InvaderShare(v, action, obj) ELSE 1)
                  * (IF Updated(keys, obj, "owner") /\ OwnerOdds(v, action, obj).branches
                     THEN OwnerOdds(v, action, obj).denominator ELSE 1)],
              DOMAIN v.owner)

\* the vector a branch ends in.  The owner of a region won becomes the value
\* of the invader key of the object allocated to (setToFeatureMatrix, lines
\* 288-289): the new invader if the step has set that key already (late),
\* the old one if not.
Outcome(v, action, keys, late, b, w) ==
    [ phase |-> IF Updated(keys, WORLD, "phase") THEN PhaseDynamics(action) ELSE v.phase,
      round |-> IF Updated(keys, WORLD, "round") THEN RoundDynamics(v, action, w) ELSE v.round,
      owner |-> [obj \in DOMAIN v.owner |->
                    IF b[obj].win
                    THEN IF late THEN b[AllocatedObject(action, obj)].leader
                         ELSE v.invader[AllocatedObject(action, obj)]
                    ELSE v.owner[obj]],
      invader |-> [obj \in DOMAIN v.owner |-> b[obj].leader],
      invaders |-> [obj \in DOMAIN v.owner |->
                      IF Updated(keys, obj, "invaders")
                      THEN InvadersDynamics(v, action, obj) ELSE v.invaders[obj]],
      occupants |-> v.occupants,
      value |-> v.value,
      resources |-> [p \in DOMAIN v.resources |->
                       IF Updated(keys, p, "resources")
                       THEN ResourcesDynamics(v, action, p) ELSE v.resources[p]],
      territory |-> [p \in DOMAIN v.resources |->
                       IF Updated(keys, p, "territory")
                       THEN TerritoryDynamics(v, action, p) ELSE v.territory[p]],
      total |-> [p \in DOMAIN v.resources |->
                   IF Updated(keys, p, "value")
                   THEN ValueDynamics(v, action, p) ELSE v.total[p]] ]

\* the sum of the second components of a set of pairs
RECURSIVE SumSecond(_)
SumSecond(pairs) ==
    IF pairs = {} THEN 0
    ELSE LET x == CHOOSE y \in pairs : TRUE IN x[2] + SumSecond(pairs \ {x})

\* World.step on one vector: every branch gives a vector, and branches that
\* end in the same vector are merged, their weights added
StepResult(v, action, keys, late, w) ==
    LET ends == {<<b, BranchNumerator(v, action, keys, b)>> :
                    b \in Branches(v, action, keys)}
        vectors == {Outcome(v, action, keys, late, e[1], w) : e \in ends}
    IN  Distribution(
          BranchDenominator(v, action, keys),
          [vec \in vectors |->
              SumSecond({e \in ends : Outcome(v, action, keys, late, e[1], w) = vec})])

\* the tree of lines 659-663: False, wrapped once for every neighbor in a
\* test of the owner of that neighbor
RECURSIVE NeighborTree(_, _)
NeighborTree(v, neighbors) ==
    IF neighbors = {} THEN FALSE
    ELSE LET neighbor == CHOOSE n \in neighbors : TRUE
         IN  IF v.owner[neighbor] = Enemy
             THEN NeighborTree(v, neighbors \ {neighbor})
             ELSE TRUE

\* objectLegality that does not ask who owns the object
objectLegalityOfNeighbors(v, table, obj) == NeighborTree(v, table[obj].neighbors)

\* objectLegality[region.name] of a player (lines 657-667), evaluated
objectLegality(v, table, obj) ==
    IF v.owner[obj] = Enemy THEN NeighborTree(v, table[obj].neighbors) ELSE FALSE

\* legalObjects (lines 494-498)
legalObjects(v, table) == {obj \in DOMAIN table : objectLegality(v, table, obj)}

\* singletonActions (lines 500-508): all resources to one legal target
singletonActions(v, table, player) ==
    {{Atom(player, allocateVerb, target, v.resources[player])} :
        target \in legalObjects(v, table)}

\* the manual choice of one player (lines 1004-1055): amounts of 1 or more
\* for legal targets, no target twice, within the resources of the player
ManualActions(v, table, player) ==
    {action \in SUBSET {Atom(player, allocateVerb, target, amount) :
                            target \in legalObjects(v, table), amount \in 1..MaxAmount} :
        /\ \A a, c \in action : a.object = c.object => a = c
        /\ SumAmounts(action) <= v.resources[player]}

\* what the game loop lets one player do in an allocate phase (lines
\* 1000-1076)
PlayerActions(v, table, player) ==
    singletonActions(v, table, player) \cup ManualActions(v, table, player)

\* the joint actions of a set of players, choices[p] being those of player p
RECURSIVE JointActions(_, _)
JointActions(choices, players) ==
    IF players = {} THEN {{}}
    ELSE LET p == CHOOSE x \in players : TRUE
         IN  {mine \cup others : mine \in choices[p],
                                 others \in JointActions(choices, players \ {p})}

\* the actions of one step of the game loop (lines 979-1076): every region
\* generates, or every player allocates
TurnActions(v, table) ==
    IF v.phase = "generate"
    THEN {UNION {Generate(name) : name \in DOMAIN table}}
    ELSE JointActions([p \in DOMAIN v.resources |-> PlayerActions(v, table, p)],
                      DOMAIN v.resources)

\* the first termination tree (lines 740-747): the test of the phase, wrapped
\* once for every region in a test of its owner
RECURSIVE TerritoryWon(_, _)
TerritoryWon(v, regions) ==
    IF regions = {} THEN v.phase = "allocate"
    ELSE LET region == CHOOSE r \in regions : TRUE
         IN  IF v.owner[region] = Enemy THEN FALSE
             ELSE TerritoryWon(v, regions \ {region})

\* the second termination tree (lines 748-756): the plane of weight 1 on the
\* resources of every player, with threshold 0.5
NobodyHasResources(v) ==
    IF v.phase = "allocate"
    THEN (IF 2 * SumOf(v.resources, DOMAIN v.resources) > 1 THEN FALSE ELSE TRUE)
    ELSE FALSE

\* terminated without the tests of the phase
terminatedInAnyPhase(v) ==
    \/ \A obj \in DOMAIN v.owner : v.owner[obj] # Enemy
    \/ SumOf(v.resources, DOMAIN v.resources) = 0

\* world.terminated(): one of the trees createWorld added holds
terminated(v) == TerritoryWon(v, DOMAIN v.owner) \/ NobodyHasResources(v)

\* the vector of a state that holds one
TheVector(dist) == CHOOSE vec \in Support(dist) : TRUE

\* ResourceWorld over one of the maps (createWorld, lines 566-766)
GameInit ==
    /\ \E m \in GameMaps :
          /\ regionMap = m.table
          /\ starts = m.starts
          /\ state = Some(Certain(createState(m.table, m.starts)))
          /\ world = createWorld(Len(m.starts), m.names, m.names[1])
    /\ graph = EmptyDict
    /\ root = None
    /\ layers = None
    /\ evaluation = None
    /\ pc = "idle"
    /\ caller = ""
    /\ level = 0
    /\ result = NoResult
    /\ nGraph = 0
    /\ nLineage = 0
    /\ nEval = 0
    /\ mapFile = None
    /\ generation \in {"restorative", "none"}
    /\ stage = "created"
    /\ prediction = None
    /\ sampled = None

\* one pass of the game loop up to the step (lines 951-1098): the loop is
\* left when the game is over, otherwise the turn's actions are performed
Step ==
    /\ stage = "created"
    /\ state # None
    /\ prediction = None /\ sampled = None
    /\ Cardinality(Support(state[1])) = 1
    /\ LET v == TheVector(state[1])
       IN  /\ ~terminated(v)
           /\ v.phase = "generate" => v.round < MaxRound
           /\ \E action \in TurnActions(v, regionMap), late \in BOOLEAN :
                 state' = Some(StepResult(v, action, None, late, world))
    /\ UNCHANGED <<graphVars, mapFile, generation, stage, regionMap, starts, prediction, sampled>>

\* world.state[None].select(True) (lines 1100-1103): one vector of the
\* outcome is kept
Select ==
    /\ stage = "created"
    /\ state # None
    /\ Cardinality(Support(state[1])) > 1
    /\ \E vec \in Support(state[1]) :
          /\ state[1].num[vec] > 0
          /\ state' = Some(Certain(vec))
    /\ UNCHANGED <<graphVars, mapFile, generation, stage, regionMap, starts, prediction, sampled>>

\* getState of a feature of an object in a distribution: the distribution of
\* its value
Marginal(dist, feature, obj) ==
    LET values == {vec[feature][obj] : vec \in Support(dist)}
    IN  Distribution(dist.den,
            [val \in values |->
                SumOf(dist.num, {vec \in Support(dist) : vec[feature][obj] = val})])

\* predictResult with the atoms collected under their subject
predictResultBySubject(v, actions, late, w) ==
    [obj \in {a.subject : a \in actions} |->
        LET atoms == {a \in actions : a.subject = obj}
            keys == {stateKey(obj, "invader", FALSE), stateKey(obj, "owner", FALSE)}
            new == StepResult(v, atoms, Some(keys), late, w)
        IN  [actions |-> atoms,
             leader |-> Distribution(new.den, EmptyDict),
             winner |-> Distribution(new.den, EmptyDict)]]

\* predictResult (lines 190-214): for every object of an atom, the outcome
\* of a step of the atoms on it that is not real and keeps to two keys
predictResult(v, actions, late, w) ==
    [obj \in {a.object : a \in actions} |->
        LET atoms == {a \in actions : a.object = obj}
            keys == {stateKey(obj, "invader", FALSE), stateKey(obj, "owner", FALSE)}
            new == StepResult(v, atoms, Some(keys), late, w)
        IN  [actions |-> atoms,
             leader |-> Marginal(new, "invader", obj),
             winner |-> Marginal(new, "owner", obj)]]

\* the call of predictResult in an allocate phase (line 1086), with the
\* actions of the turn
PredictResult ==
    /\ stage = "created"
    /\ state # None
    /\ prediction = None /\ sampled = None
    /\ Cardinality(Support(state[1])) = 1
    /\ LET v == TheVector(state[1])
       IN  /\ v.phase = "allocate"
           /\ \E actions \in TurnActions(v, regionMap), late \in BOOLEAN :
                 prediction' = Some([actions |-> actions,
                                     objects |-> predictResult(v, actions, late, world)])
    /\ UNCHANGED <<graphVars, mapFile, generation, stage, regionMap, starts, state, sampled>>

\* the orders in which the members of a set may be listed
Orderings(S) ==
    {seq \in [1..Cardinality(S) -> S] :
        \A i, j \in 1..Cardinality(S) : seq[i] = seq[j] => i = j}

\* sampleAction (lines 444-492) for an agent with a number of resources:
\* what it may return, with the targets it kept in the order of the loop
sampleAction(have, legal, player, numTargets, minResources) ==
    LET resources == IF have > minResources THEN have - minResources ELSE have
        limit == IF have > minResources THEN numTargets ELSE 1
        size == IF Cardinality(legal) > limit THEN limit ELSE Cardinality(legal)
    IN  UNION { UNION { { [targets |-> targets,
                           actions |-> {Atom(player, allocateVerb, targets[i], amounts[i]) :
                                           i \in {j \in 1..size : amounts[j] > 0}}]
                          : amounts \in {am \in [1..size -> 0..resources] :
                                            size > 0 => SumOf(am, 1..size) = resources} }
                        : targets \in Orderings(kept) }
                : kept \in {K \in SUBSET legal : Cardinality(K) = size} }

\* the minResources sampleAction is called with: none, or about as many as
\* the agent has
MinResourcesChoices(have) == {0} \cup {m \in {have - 1, have, have + 1} : m >= 0}

\* a call of sampleAction for one of the players in an allocate phase (line
\* 1079)
SampleAction ==
    /\ stage = "created"
    /\ state # None
    /\ prediction = None /\ sampled = None
    /\ Cardinality(Support(state[1])) = 1
    /\ LET v == TheVector(state[1])
       IN  \E player \in DOMAIN v.resources,
              numTargets \in 0..Cardinality(DOMAIN regionMap) :
              \E minResources \in MinResourcesChoices(v.resources[player]) :
              /\ v.phase = "allocate"
              /\ \E returned \in sampleAction(v.resources[player], legalObjects(v, regionMap),
                                           player, numTargets, minResources) :
                  sampled' = Some([agent |-> player,
                                      numTargets |-> numTargets,
                                      minResources |-> minResources,
                                      resources |-> v.resources[player],
                                      legal |-> legalObjects(v, regionMap),
                                      targets |-> returned.targets,
                                      actions |-> returned.actions])
    /\ UNCHANGED <<graphVars, mapFile, generation, stage, regionMap, starts, state, prediction>>

\* the loop goes on: what a call returned is printed (lines 1088-1095) or
\* dropped, and is held no longer
Proceed ==
    /\ prediction # None \/ sampled # None
    /\ prediction' = None
    /\ sampled' = None
    /\ UNCHANGED <<graphVars, mapFile, generation, stage, regionMap, starts, state>>

\* the game loop is left: the game is over (lines 977-978), or one round was
\* asked for and the generate step that began in round start+1 has been made
\* (lines 1124-1127; the game started in round 0)
Leave ==
    /\ stage = "created"
    /\ state # None
    /\ prediction = None /\ sampled = None
    /\ Cardinality(Support(state[1])) = 1
    /\ LET v == TheVector(state[1])
       IN  /\ v.phase = "allocate"
           /\ terminated(v) \/ v.round = 2
    /\ stage' = "over"
    /\ UNCHANGED <<graphVars, mapFile, generation, regionMap, starts, state,
                   prediction, sampled>>

GameNext ==
    \/ Leave
    \/ Step
    \/ Select
    \/ PredictResult
    \/ SampleAction
    \/ Proceed

GameSpec == GameInit /\ [][GameNext]_vars

(***************************************************************************)
(* Setting the game up: mapLoad, closeRegions and createWorld              *)
(* (src/examples/teamofrivals.py:553-811, 906-921).  A map file is the     *)
(* sequence of its region nodes; an attribute left out is None.            *)
(***************************************************************************)
Node(name, value, owner, occupants, neighbors) ==
    [name |-> name, value |-> value, owner |-> owner, occupants |-> occupants,
     neighbors |-> neighbors]

\* the region names, in the order in which sorted() puts them
RegionNames == <<"R1", "R2", "R3", "R4">>

NameRank(name) == CHOOSE i \in 1..Len(RegionNames) : RegionNames[i] = name

\* the owner attributes of the nodes of a file
OwnerChoices == {None, Some(0), Some(1), Some(2)}

\* the neighbor elements of the nodes of a file
NeighborChoices ==
    { [r \in {"R1", "R2", "R3"} |-> {}],
      ("R1" :> {"R2"}) @@ ("R2" :> {"R3"}) @@ ("R3" :> {}),
      ("R1" :> {"R2", "R4"}) @@ ("R2" :> {"R1"}) @@ ("R3" :> {"R2"}) }

\* the value and occupants attributes of the nodes of a file
ValueChoices ==
    { [r \in {"R1", "R2", "R3"} |-> [value |-> None, occupants |-> None]],
      ("R1" :> [value |-> Some(2), occupants |-> None])
         @@ ("R2" :> [value |-> Some(1), occupants |-> Some(3)])
         @@ ("R3" :> [value |-> None, occupants |-> Some(1)]) }

\* the map files read
MapFiles ==
    { [i \in 1..Len(names) |->
          Node(names[i], values[names[i]].value, owners[i],
               values[names[i]].occupants, neighbors[names[i]])] :
        names \in {<<"R1", "R2">>, <<"R2", "R1">>, <<"R1", "R2", "R3">>, <<"R2", "R2">>},
        owners \in [1..3 -> OwnerChoices],
        neighbors \in NeighborChoices,
        values \in ValueChoices }

\* node.get(attribute, default) and int()
Get(attribute, default) == IF attribute = None THEN default ELSE attribute[1]

\* sorted(starts) (line 808): the pairs (owner, name) in ascending order
RECURSIVE Sorted(_)
Sorted(pairs) ==
    IF pairs = {} THEN << >>
    ELSE LET least == CHOOSE p \in pairs :
                         \A q \in pairs :
                            \/ p[1] < q[1]
                            \/ p[1] = q[1] /\ NameRank(p[2]) <= NameRank(q[2])
         IN  <<least>> \o Sorted(pairs \ {least})

\* the inner loop of closeRegions (lines 559-563) for one region: a
\* neighbor that is no region becomes one, of value 4 and without occupants,
\* and gets the region as a neighbor
RECURSIVE LinkBack(_, _, _)
LinkBack(regions, orig, dests) ==
    IF dests = {} THEN regions
    ELSE LET dest == CHOOSE d \in dests : TRUE
             known == IF dest \in DOMAIN regions THEN regions
                      ELSE (dest :> Region(4, None, {})) @@ regions
         IN  LinkBack([known EXCEPT ![dest].neighbors = @ \cup {orig}],
                      orig, dests \ {dest})

\* the outer loop (line 558) over the regions the table had at the call
RECURSIVE CloseFrom(_, _)
CloseFrom(regions, origs) ==
    IF origs = {} THEN regions
    ELSE LET orig == CHOOSE o \in origs : TRUE
         IN  CloseFrom(LinkBack(regions, orig, regions[orig].neighbors),
                       origs \ {orig})

\* closeRegions that adds the regions missing and no link
closeRegionsOneWay(regions) ==
    [r \in DOMAIN regions \cup UNION {regions[o].neighbors : o \in DOMAIN regions} |->
        IF r \in DOMAIN regions THEN regions[r] ELSE Region(4, None, {})]

\* closeRegions (lines 553-564)
closeRegions(regions) == CloseFrom(regions, DOMAIN regions)

\* mapLoad (lines 786-811) of a file whose region names differ.  The owner
\* entry of a region is read by nothing but the computation of starts.
mapLoad(file, close) ==
    LET regions == [name \in {file[i].name : i \in 1..Len(file)} |->
                       LET node == file[CHOOSE i \in 1..Len(file) : file[i].name = name]
                       IN  Region(Get(node.value, 5), Some(Get(node.occupants, 5)),
                                  node.neighbors)]
        pairs == {<<Get(file[i].owner, 0), file[i].name>> :
                     i \in {j \in 1..Len(file) : Get(file[j].owner, 0) > 0}}
        sorted == Sorted(pairs)
    IN  [regions |-> IF close THEN closeRegions(regions) ELSE regions,
         starts |-> [i \in 1..Len(sorted) |-> sorted[i][2]]]

\* the names of a table in the order of its items(): the order of the file,
\* then the regions closeRegions added
RECURSIVE ItemsOrder(_, _)
ItemsOrder(file, table) ==
    IF file # << >>
    THEN (IF file[1].name \in DOMAIN table THEN <<file[1].name>> ELSE << >>)
            \o ItemsOrder(Tail(file), [r \in DOMAIN table \ {file[1].name} |-> table[r]])
    ELSE IF DOMAIN table = {} THEN << >>
    ELSE LET first == CHOOSE r \in DOMAIN table :
                         \A q \in DOMAIN table : NameRank(r) <= NameRank(q)
         IN  <<first>> \o ItemsOrder(file, [r \in DOMAIN table \ {first} |-> table[r]])

\* the resource generation modes of the command line (lines 884-896)
Generations == {"additive", "restorative", "minimal", "none"}

\* ResourceWorld() before createWorld has filled it
EmptyWorld == World({}, {}, << >>, EmptyDict)

LoadInit ==
    /\ mapFile \in {Some(file) : file \in MapFiles}
    /\ generation \in Generations
    /\ stage = "start"
    /\ regionMap = EmptyDict
    /\ starts = << >>
    /\ state = None
    /\ world = EmptyWorld
    /\ graph = EmptyDict
    /\ root = None
    /\ layers = None
    /\ evaluation = None
    /\ pc = "idle"
    /\ caller = ""
    /\ level = 0
    /\ result = NoResult
    /\ nGraph = 0
    /\ nLineage = 0
    /\ nEval = 0
    /\ prediction = None
    /\ sampled = None

\* mapLoad(filename, close): the assertion of line 798 fails on a file that
\* names a region twice
MapLoad ==
    /\ stage = "start"
    /\ LET file == mapFile[1]
       IN  IF \E i, j \in 1..Len(file) : i # j /\ file[i].name = file[j].name
           THEN /\ stage' = "error"
                /\ UNCHANGED <<regionMap, starts>>
           ELSE \E close \in BOOLEAN :
                   /\ regionMap' = mapLoad(file, close).regions
                   /\ starts' = mapLoad(file, close).starts
                   /\ stage' = IF close THEN "closed" ELSE "loaded"
    /\ UNCHANGED <<graphVars, mapFile, generation, state, prediction, sampled>>

\* closeRegions(regions) on the table that was loaded, once or again
CloseRegions ==
    /\ stage \in {"loaded", "closed"}
    /\ regionMap' = closeRegions(regionMap)
    /\ stage' = "closed"
    /\ UNCHANGED <<graphVars, mapFile, generation, starts, state, prediction, sampled>>

\* createWorld(len(starts), regions, starts, generation) (line 921)
CreateWorld ==
    /\ stage \in {"loaded", "closed"}
    /\ \E first \in DOMAIN regionMap :
          world' = createWorld(Len(starts), ItemsOrder(mapFile[1], regionMap), first)
    /\ state' = Some(Certain(createState(regionMap, starts)))
    /\ stage' = "created"
    /\ UNCHANGED <<graph, root, layers, evaluation, pc, caller, level, result,
                   nGraph, nLineage, nEval,
                   mapFile, generation, regionMap, starts, prediction, sampled>>

LoadNext ==
    \/ MapLoad
    \/ CloseRegions
    \/ CreateWorld

LoadSpec == LoadInit /\ [][LoadNext]_vars

(***************************************************************************)
(* Structural mutation of the world's tables.  DefineState and SetDynamics *)
(* stand for the mutators of World, which change a table and clear the     *)
(* graph; AssignDynamics is the assignment createWorld makes straight into *)
(* world.dynamics.  No accessor has returned since a mutation.             *)
(***************************************************************************)
\* what clear() does to the graph object
Cleared ==
    /\ root' = None
    /\ layers' = None
    /\ evaluation' = None
    /\ graph' = EmptyDict
    /\ nGraph' = 0 /\ nLineage' = 0 /\ nEval' = 0

\* world.defineState: a new unary variable
DefineState ==
    /\ pc = "idle"
    /\ UNCHANGED gameVars
    /\ \E v \in {<<"A", "_turn">>} \ world.locals :
          world' = [world EXCEPT !.locals = @ \cup {v}]
    /\ Cleared
    /\ result' = NoResult
    /\ UNCHANGED <<pc, caller, level>>

\* world.setDynamics: a new or replaced entry of the dynamics of a key
SetDynamics ==
    /\ pc = "idle"
    /\ UNCHANGED gameVars
    /\ \E d \in {e \in DynXChoices : DOMAIN e # {} /\ ~e[X].isBool} :
          /\ world' = [world EXCEPT !.dynamics = d @@ @]
          /\ world' # world
    /\ Cleared
    /\ result' = NoResult
    /\ UNCHANGED <<pc, caller, level>>

\* world.dynamics[key] = True (src/examples/teamofrivals.py:595): the dict
\* of the world gets the entry, the graph object is not touched
AssignDynamics ==
    /\ pc = "idle"
    /\ UNCHANGED gameVars
    /\ world' = [world EXCEPT !.dynamics = (X :> Sentinel) @@ @]
    /\ world' # world
    /\ result' = NoResult
    /\ UNCHANGED <<graph, root, layers, evaluation, pc, caller, level,
                   nGraph, nLineage, nEval>>

NextMutating ==
    \/ Next
    \/ DefineState
    \/ SetDynamics
    \/ AssignDynamics

MutatingSpec == Init /\ [][NextMutating]_vars

(***************************************************************************)
(* Properties.                                                             *)
(***************************************************************************)
\* computeLineage has returned and nothing has raised
LineageDone == pc = "idle" /\ layers # None

\* the nodes from which n is reachable through one or more parent edges
RECURSIVE Closure(_, _)
Closure(g, S) ==
    LET more == S \cup UNION {g[n].parents : n \in S \cap DOMAIN g}
    IN  IF more = S THEN S ELSE Closure(g, more)

Upstream(g, n) == Closure(g, g[n].parents)

\* no node is reachable from itself
Acyclic(g) == \A n \in DOMAIN g : n \notin Upstream(g, n)

\* C1: after computeLineage every node has a level strictly greater than the
\* level of each of its parents, and the level-0 nodes, the root set and
\* layer 0 are exactly the nodes with no parents.
C1_LevelAboveParents ==
    LineageDone =>
        /\ \A n \in DOMAIN graph :
              /\ "level" \in graph[n].keys
              /\ \A p \in graph[n].parents :
                    "level" \in graph[p].keys /\ graph[p].level < graph[n].level
        /\ {n \in DOMAIN graph : graph[n].level = 0} = {n \in DOMAIN graph : graph[n].parents = {}}
        /\ root[1] = {n \in DOMAIN graph : graph[n].level = 0}
        /\ Layer(layers[1], 0) = root[1]

\* C1 witness: a layered graph with a node two or more levels deep whose
\* parents lie on different levels
C1_Witness ==
    /\ LineageDone
    /\ \E n \in DOMAIN graph :
          /\ graph[n].level >= 2
          /\ \E p, q \in graph[n].parents : graph[p].level < graph[q].level

\* the layers are pairwise disjoint and cover the node set
IsPartition(lays, nodes) ==
    /\ UNION {lays[i] : i \in 1..Len(lays)} = nodes
    /\ \A i, j \in 1..Len(lays) : i # j => lays[i] \cap lays[j] = {}

\* C2: on an acyclic graph the layering loop terminates, and whenever
\* computeLineage has returned the layers partition the node set.
C2_TerminatesWithPartition ==
    /\ [](LineageDone => IsPartition(layers[1], DOMAIN graph))
    /\ (pc = "lineage" /\ Acyclic(graph)) ~> LineageDone

\* C2 witness: the loop has ended on a graph of four or more layers, none empty
C2_Witness ==
    /\ LineageDone
    /\ Len(layers[1]) >= 4
    /\ \A i \in 1..Len(layers[1]) : layers[1][i] # {}

\* C3 as stated: a pass of the loop that places no node while nodes are left
\* unplaced ends the computation with an error.
C3_CycleRaises ==
    (/\ layers # None
     /\ Len(layers[1]) >= 2
     /\ layers[1][Len(layers[1])] = {}
     /\ Unplaced(graph, layers[1])) => pc = "error"

\* C4: after computeLineage the ancestors of a node are exactly the nodes it
\* is reachable from; they include the ancestors of each parent and never
\* the node itself.
C4_AncestorsAreUpstream ==
    LineageDone =>
        \A n \in DOMAIN graph :
            /\ "ancestors" \in graph[n].keys
            /\ graph[n].ancestors = Upstream(graph, n)
            /\ n \notin graph[n].ancestors
            /\ \A p \in graph[n].parents : graph[p].ancestors \subseteq graph[n].ancestors

\* C4 witness: a node with an ancestor that is not one of its parents and is
\* two or more edges away
C4_Witness ==
    /\ LineageDone
    /\ \E n \in DOMAIN graph :
          \E a \in graph[n].ancestors \ graph[n].parents :
              \E p \in graph[n].parents : a \in graph[p].ancestors \ graph[p].parents

\* the present keys of the declared unary variables
UnaryKeys(w) == {stateKey(v[1], v[2], FALSE) : v \in w.locals}

\* C5: getEvaluation returns sets in which the present key of every unary
\* variable is in exactly the set indexed by the level of its post node, and
\* which hold nothing else.
C5_EvaluationBuckets ==
    result.op = "getEvaluation" =>
        /\ evaluation = Some(result.list)
        /\ \A k \in UnaryKeys(world) :
              \A i \in 1..Len(result.list) :
                  k \in result.list[i] <=> graph[makeFuture(k)].level = i - 1
        /\ \A k \in UnaryKeys(world) : graph[makeFuture(k)].level < Len(result.list)
        /\ UNION {result.list[i] : i \in 1..Len(result.list)} = UnaryKeys(world)

\* C5 witness: an evaluation order of two or more buckets for a world that
\* also has a relation, an action and a utility node
C5_Witness ==
    /\ result.op = "getEvaluation"
    /\ Len(result.list) >= 2
    /\ \E n \in DOMAIN graph : n.tag = "binary"
    /\ \E n \in DOMAIN graph : n.tag = "action"
    /\ \E n \in DOMAIN graph : n.tag = "agent"

\* the index of the evaluation bucket holding a key
BucketOf(list, k) == CHOOSE i \in 0..(Len(list) - 1) : k \in list[i + 1]

\* C6: a variable whose post node has the post node of another variable as
\* a parent is in a strictly later bucket than that variable; a variable
\* whose post node has no parents is in bucket 0.
C6_ReadersEvaluatedLater ==
    result.op = "getEvaluation" =>
        \A kx \in UnaryKeys(world) :
            /\ \A ky \in UnaryKeys(world) :
                  makeFuture(ky) \in graph[makeFuture(kx)].parents =>
                      BucketOf(result.list, ky) < BucketOf(result.list, kx)
            /\ graph[makeFuture(kx)].parents = {} => kx \in result.list[1]

\* C6 witness: an evaluation order in which one variable reads the post state
\* of another that is itself not in bucket 0
C6_Witness ==
    /\ result.op = "getEvaluation"
    /\ \E kx, ky \in UnaryKeys(world) :
          /\ makeFuture(ky) \in graph[makeFuture(kx)].parents
          /\ BucketOf(result.list, ky) >= 1

\* every node a tree of the given dynamics keys refers to: the actions that
\* key the entries and the variables the trees read
DynamicsRefs(w, dkeys) ==
    UNION { UNION { {actionKey(e.action) : b \in {e.wildcard} \ {TRUE}}
                    \cup (e.tree \ {CONSTANT_KEY})
                    : e \in w.dynamics[key].table }
            : key \in dkeys }

\* the future keys the reward trees refer to
RewardRefs(w) ==
    {makeFuture(k) : k \in (UNION UNION {w.agents[i].R : i \in Indices(w)}) \ {CONSTANT_KEY}}

\* the variables the legality trees read, and the actions of those trees
LegalityRefs(w) ==
    UNION { UNION { (l.tree \ {CONSTANT_KEY})
                    \cup {rootAction(l.action) : k \in l.tree \ {CONSTANT_KEY}}
                    : l \in w.agents[i].legal }
            : i \in Indices(w) }

\* some reference made by the dynamics trees of dkeys, by a reward tree or by
\* a legality tree has no node, or a non-turn dynamics key is no variable
BadReference(w, dkeys) ==
    \/ \E r \in DynamicsRefs(w, dkeys) \cup RewardRefs(w) \cup LegalityRefs(w) :
          r \notin GraphNodes(w)
    \/ \E key \in DOMAIN w.dynamics :
          ~isTurnKey(key) /\ key \notin UnaryNodes(w) \cup BinaryNodes(w)

\* computeGraph has run and returned normally
BuiltNormally == nGraph > 0 /\ pc # "error"

\* C7 as stated: computeGraph fails whenever a dynamics tree (of any key), a
\* reward tree or a legality tree references a key or action without a node,
\* and whenever a non-turn dynamics key is not a declared variable.
C7_AnyDanglingReferenceFails ==
    BuiltNormally => ~BadReference(world, DOMAIN world.dynamics)

\* C7 amended: computeGraph fails whenever a dynamics tree of a non-turn key,
\* a reward tree or a legality tree references a key or action without a
\* node, and whenever a non-turn dynamics key is not a declared variable;
\* when it returns, every such reference is an edge of the graph.
C7_DanglingReferenceFails ==
    BuiltNormally =>
        /\ ~BadReference(world, {key \in DOMAIN world.dynamics : ~isTurnKey(key)})
        /\ \A key \in {k \in DOMAIN world.dynamics : ~isTurnKey(k)} :
              \A r \in DynamicsRefs(world, {key}) :
                  /\ r \in graph[makeFuture(key)].parents
                  /\ makeFuture(key) \in graph[r].children
        /\ \A i \in Indices(world) :
              /\ \A r \in RewardRefs(world) :
                    (\E R \in world.agents[i].R : makePresent(r) \in R) =>
                        r \in graph[nameKey(world.agents[i].name)].parents
              /\ \A l \in world.agents[i].legal :
                    \A r \in l.tree \ {CONSTANT_KEY} :
                        r \in graph[rootAction(l.action)].parents

\* C7 witness: computeGraph has raised in a world all of whose dynamics keys
\* are declared and one of whose trees refers to a node that does not exist
C7_Witness ==
    /\ pc = "error"
    /\ nGraph = 1
    /\ ~UnaccountedKey(world)
    /\ BadReference(world, {key \in DOMAIN world.dynamics : ~isTurnKey(key)})

\* C8 as stated: keys, values, items, lookup and iteration on a graph over a
\* world with nodes all return from a built dict, never from the empty one.
C8_ReadAccessorsBuild ==
    (/\ result.op \in {"keys", "values", "items", "getitem", "iter"}
     /\ GraphNodes(world) # {}
     /\ ~ComputeGraphFails(world)) =>
        /\ DOMAIN graph = GraphNodes(world)
        /\ result.op # "getitem" => DOMAIN result.view = GraphNodes(world)

\* C9 as stated: the record a lookup returns holds agent, type, parents,
\* children, ancestors and level, on a first access too.
C9_LookupRecordComplete ==
    result.op = "getitem" =>
        \A k \in DOMAIN result.view :
            {"agent", "type", "parents", "children", "ancestors", "level"}
                \subseteq result.view[k].keys

\* C10 as stated: between two clear() calls computeGraph runs exactly once
\* whatever accessors are called, in any world, and computeLineage and
\* computeEvaluation run at most once each.
C10_BuiltOncePerEpoch ==
    /\ nGraph <= 1
    /\ nLineage <= 1
    /\ nEval <= 1
    /\ result.op \in {"keys", "values", "items", "getitem", "getLayers",
                      "getRoot", "getEvaluation"} => nGraph = 1

\* the root ActionSet of an action: every atom without its amount
RootOf(action) ==
    NodeId("action", "", "", FALSE,
           {Atom(a.subject, a.verb, a.object, 0) : a \in action})

\* the nodes of one type
NodesOfType(g, type) == {n \in DOMAIN g : g[n].type = type}

\* C12: after computeGraph the nodes are exactly a pre and a post node of
\* every declared unary variable and of every relation key, a utility node of
\* every agent with a reward function, and one action node per distinct root
\* action; actions of the same root share the node, and its parents are the
\* keys of all their legality trees together.
C12_NodeSet ==
    BuiltNormally =>
        /\ NodesOfType(graph, "state pre") =
              {stateKey(v[1], v[2], FALSE) : v \in world.locals}
                  \cup {e.key : e \in world.relations}
        /\ NodesOfType(graph, "state post") =
              {stateKey(v[1], v[2], TRUE) : v \in world.locals}
                  \cup {[e.key EXCEPT !.future = TRUE] : e \in world.relations}
        /\ NodesOfType(graph, "utility") =
              {nameKey(world.agents[i].name) :
                  i \in {j \in Indices(world) : world.agents[j].R # {}}}
        /\ NodesOfType(graph, "action") =
              {RootOf(a) : a \in UNION {world.agents[i].actions : i \in Indices(world)}}
        /\ \A n \in DOMAIN graph :
              graph[n].type \in {"state pre", "state post", "utility", "action"}
        /\ \A n \in NodesOfType(graph, "action") :
              graph[n].parents =
                  UNION { UNION { l.tree \ {CONSTANT_KEY} :
                                    l \in {k \in world.agents[i].legal : RootOf(k.action) = n} }
                          : i \in Indices(world) }

\* two agents whose actions Go1 and Go2 differ in the amount only: one node,
\* with the keys of both legality trees as parents
C12_Witness ==
    /\ BuiltNormally
    /\ Len(world.agents) = 2
    /\ RootOf(Go1) \in DOMAIN graph
    /\ RootOf(Go1) = RootOf(Go2)
    /\ graph[RootOf(Go1)].parents = {X, Y}
    /\ Cardinality(NodesOfType(graph, "action")) = 2

\* the parents the dynamics entries of the keys dkeys, the reward trees and
\* the legality trees give the node n
ExpectedParents(w, n, dkeys) ==
    UNION { UNION { (IF e.wildcard THEN {} ELSE {actionKey(e.action)})
                        \cup (e.tree \ {CONSTANT_KEY})
                    : e \in w.dynamics[key].table }
            : key \in {k \in dkeys : ~w.dynamics[k].isBool
                                      /\ [k EXCEPT !.future = TRUE] = n} }
    \cup
    UNION { UNION { {[r EXCEPT !.future = TRUE] : r \in R \ {CONSTANT_KEY}}
                    : R \in w.agents[i].R }
            : i \in {j \in Indices(w) : nameKey(w.agents[j].name) = n} }
    \cup
    UNION { UNION { l.tree \ {CONSTANT_KEY}
                    : l \in {k \in w.agents[i].legal : RootOf(k.action) = n} }
            : i \in Indices(w) }

\* C13 as stated: after computeGraph the parents of every node are exactly
\* those its non-boolean dynamics entry (of any key), the reward trees and the
\* legality trees give it.
C13_ParentSets ==
    BuiltNormally =>
        \A n \in DOMAIN graph :
            graph[n].parents = ExpectedParents(world, n, DOMAIN world.dynamics)

\* C13, amended: after computeGraph the parents of every node are exactly
\* those the non-boolean dynamics entry of a key that is not a turn key, the
\* reward trees (future-tagged) and the legality trees give it; the post node
\* of a turn key gets no parent from its dynamics entry.
C13_ParentSetsExceptTurn ==
    BuiltNormally =>
        \A n \in DOMAIN graph :
            graph[n].parents =
                ExpectedParents(world, n,
                    {k \in DOMAIN world.dynamics : k.feature # "_turn"})

\* a declared turn key with a dynamics table of its own beside a variable
\* whose table is keyed by an action and reads a key
C13_Witness ==
    /\ BuiltNormally
    /\ makeFuture(TURN) \in DOMAIN graph
    /\ TURN \in DOMAIN world.dynamics
    /\ graph[makeFuture(TURN)].parents = {}
    /\ makeFuture(X) \in DOMAIN graph
    /\ graph[makeFuture(X)].parents = {actionKey(GoRoot), X}
    /\ \E n \in NodesOfType(graph, "utility") : graph[n].parents # {}
    /\ \E n \in NodesOfType(graph, "action") : graph[n].parents # {}

\* the keys whose dynamics entry is the boolean sentinel
SentinelKeys(w) == {k \in DOMAIN w.dynamics : w.dynamics[k].isBool}

\* C14 as stated: the post node of a key whose dynamics entry is a boolean
\* has no parents and level 0, and the key is in evaluation bucket 0.
C14_SentinelKeyInBucket0 ==
    \A k \in SentinelKeys(world) :
        LET post == [k EXCEPT !.future = TRUE]
        IN  /\ BuiltNormally => graph[post].parents = {}
            /\ LineageDone /\ pc # "error" =>
                  "level" \in graph[post].keys /\ graph[post].level = 0
            /\ result.op = "getEvaluation" =>
                  Len(result.list) > 0 /\ k \in result.list[1]

\* C14, amended: the post node of a key whose dynamics entry is a boolean has
\* no parents and level 0; if the key is a unary variable it is in evaluation
\* bucket 0 (a relation key is in no bucket).
C14_SentinelKeyIsRoot ==
    \A k \in SentinelKeys(world) :
        LET post == [k EXCEPT !.future = TRUE]
        IN  /\ BuiltNormally => graph[post].parents = {}
            /\ LineageDone /\ pc # "error" =>
                  "level" \in graph[post].keys /\ graph[post].level = 0
            /\ result.op = "getEvaluation" =>
                  IF k.tag = "state"
                  THEN Len(result.list) > 0 /\ k \in result.list[1]
                  ELSE \A i \in 1..Len(result.list) : k \notin result.list[i]

\* getEvaluation has returned more than one bucket for a world in which a
\* unary key and a relation key both have the sentinel
C14_Witness ==
    /\ result.op = "getEvaluation"
    /\ {X, REL} \subseteq SentinelKeys(world)
    /\ Len(result.list) > 1
    /\ X \in result.list[1]
    /\ graph[makeFuture(X)].level = 0
    /\ graph[makeFuture(REL)].level = 0
    /\ graph[makeFuture(X)].children # {}

\* the scenario of C15: variables x (no dynamics) and y (whose dynamics read
\* x, now or next), one agent whose reward reads y, and nothing else
Scenario(w) ==
    /\ w.locals = {<<"A", "x">>, <<"A", "y">>}
    /\ w.relations = {}
    /\ Len(w.agents) = 1
    /\ w.agents[1].R = {{Y}} /\ w.agents[1].actions = {} /\ w.agents[1].legal = {}
    /\ DOMAIN w.dynamics = {Y}
    /\ ~w.dynamics[Y].isBool
    /\ \A e \in w.dynamics[Y].table :
          e.wildcard /\ e.tree # {} /\ e.tree \subseteq {X, [X EXCEPT !.future = TRUE]}

\* C15 as stated: in the scenario getLayers returns three layers of one node
\* each: x, then y, then the utility node.
C15_ThreeSingletonLayers ==
    (result.op = "getLayers" /\ Scenario(world)) =>
        \E a \in {X, [X EXCEPT !.future = TRUE]}, b \in {Y, [Y EXCEPT !.future = TRUE]} :
            result.list = <<{a}, {b}, {nameKey("A")}>>

\* C15, amended: in the scenario getLayers returns three layers: the
\* parentless nodes (the pre and post node of x and the pre node of y), then
\* the post node of y, then the utility node.
C15_ThreeLayers ==
    (result.op = "getLayers" /\ Scenario(world)) =>
        result.list = << {X, [X EXCEPT !.future = TRUE], Y},
                         {[Y EXCEPT !.future = TRUE]},
                         {nameKey("A")} >>

\* getLayers has returned in the scenario
C15_Witness ==
    /\ result.op = "getLayers"
    /\ Scenario(world)
    /\ Len(result.list) = 3
    /\ graph[nameKey("A")].level = 2

\* the regions of a world of the game
Regions(w) == {v[1] : v \in {u \in w.locals : u[2] = "owner"}}

\* C18: in a world built by createWorld, the owner key of every region is in
\* a strictly later evaluation bucket than the invader key of that region.
C18_OwnerAfterInvader ==
    (result.op = "getEvaluation" /\ world \in RivalWorlds) =>
        \A r \in Regions(world) :
            BucketOf(result.list, stateKey(r, "owner", FALSE))
                > BucketOf(result.list, stateKey(r, "invader", FALSE))

\* the parents of every node of a dict
ParentsOf(g) == [n \in DOMAIN g |-> g[n].parents]

\* C11: whatever structural mutation the world's tables have gone through
\* since the graph was built, an accessor returns the graph of the tables as
\* they now are, and the cached evaluation order is theirs too.
C11_NeverStale ==
    /\ result.op \in {"keys", "values", "items"} =>
          /\ ~ComputeGraphFails(world)
          /\ ParentsOf(result.view) = ParentsOf(ComputeGraph(world))
    /\ result.op = "getEvaluation" =>
          \A k \in SentinelKeys(world) :
              k.tag = "state" => Len(result.list) > 0 /\ k \in result.list[1]


(***************************************************************************)
(* The game                                                                *)
(***************************************************************************)
\* the weight of a distribution over its denominator
TotalWeight(dist) == SumOf(dist.num, Support(dist))

\* C16: a step is weight-preserving: the weights of the vectors it leaves sum
\* to 1, the weight of the vector it was given, whatever branched and merged
C16_WeightPreserved ==
    state # None =>
        /\ TotalWeight(state[1]) = state[1].den
        /\ \A vec \in Support(state[1]) : state[1].num[vec] > 0

\* a step has left four vectors or more: two players tie for a region and the
\* invasion may win or lose
C16_Witness ==
    /\ state # None
    /\ Cardinality(Support(state[1])) >= 4
    /\ state[1].den > 2
    /\ \E vec \in Support(state[1]) : state[1].num[vec] > 1

\* two distributions give every value the same weight
SameDistribution(d, e) ==
    /\ Support(d) = Support(e)
    /\ \A x \in Support(d) : d.num[x] * e.den = e.num[x] * d.den

\* C17: predictResult returns one record for each object an atom of the
\* actions targets, with the atoms on it and what a step of them does to the
\* invader and the owner of the object, which is what the step of all the
\* actions does to them; the state of the world is as it was before the call
C17_PredictionLeavesState ==
    [][ (prediction' # prediction /\ prediction' # None) =>
          /\ state' = state
          /\ LET p == prediction'[1]
                 v == TheVector(state[1])
             IN  /\ DOMAIN p.objects = {a.object : a \in p.actions}
                 /\ \A obj \in DOMAIN p.objects :
                       /\ p.objects[obj].actions = {a \in p.actions : a.object = obj}
                       /\ \E late \in BOOLEAN :
                             LET keys == {stateKey(obj, "invader", FALSE),
                                          stateKey(obj, "owner", FALSE)}
                                 part == StepResult(v, p.objects[obj].actions,
                                                    Some(keys), late, world)
                                 full == StepResult(v, p.actions, None, late, world)
                             IN  /\ \A vec \in Support(part) :
                                       /\ vec.phase = v.phase
                                       /\ vec.round = v.round
                                       /\ vec.resources = v.resources
                                       /\ vec.invaders = v.invaders
                                       /\ \A other \in DOMAIN v.owner \ {obj} :
                                             /\ vec.owner[other] = v.owner[other]
                                             /\ vec.invader[other] = v.invader[other]
                                 /\ p.objects[obj].leader = Marginal(part, "invader", obj)
                                 /\ p.objects[obj].winner = Marginal(part, "owner", obj)
                                 /\ SameDistribution(p.objects[obj].leader,
                                                     Marginal(full, "invader", obj))
                                 /\ SameDistribution(p.objects[obj].winner,
                                                     Marginal(full, "owner", obj)) ]_vars

\* a prediction for two players that tie for a region: either may lead, and
\* the region may stay the enemy's
C17_Witness ==
    /\ prediction # None
    /\ state # None
    /\ \E obj \in DOMAIN prediction[1].objects :
          /\ Cardinality(Support(prediction[1].objects[obj].leader)) = 2
          /\ Cardinality(Support(prediction[1].objects[obj].winner)) >= 2
          /\ Cardinality(prediction[1].objects[obj].actions) = 2

\* C19: sampleAction called with numTargets = 0 removes no legal object from
\* its targets
C19_ZeroIsNoLimit ==
    (sampled # None /\ sampled[1].numTargets = 0) =>
        {sampled[1].targets[i] : i \in DOMAIN sampled[1].targets} = sampled[1].legal

\* C20: the amounts of what sampleAction returns sum to at most resources -
\* minResources when that is not negative, every amount is 1 or more, and
\* the amounts never sum to more than the resources of the agent
C20_MinResourcesKept ==
    sampled # None =>
        /\ sampled[1].resources >= sampled[1].minResources =>
              SumAmounts(sampled[1].actions)
                 <= sampled[1].resources - sampled[1].minResources
        /\ \A a \in sampled[1].actions : a.amount >= 1
        /\ SumAmounts(sampled[1].actions) <= sampled[1].resources

(***************************************************************************)
(* Setting the game up                                                     *)
(***************************************************************************)
\* C21: in the world created from a loaded map, the region whose owner
\* attribute is k is owned by Player k, and a region whose owner attribute is
\* 0 or left out is owned by the enemy
C21_OwnerAttributeHonoured ==
    stage = "created" =>
        \A i \in 1..Len(mapFile[1]) :
            LET node == mapFile[1][i]
                vec == TheVector(state[1])
            IN  IF Get(node.owner, 0) > 0
                THEN vec.owner[node.name] = PlayerName(Get(node.owner, 0) - 1)
                ELSE vec.owner[node.name] = Enemy

\* a step of the game loop that starts in the given phase
StepIn(phase) ==
    /\ state # None /\ state' # None /\ state' # state
    /\ Cardinality(Support(state[1])) = 1
    /\ TheVector(state[1]).phase = phase

\* C22: the generation mode decides whether the resources a player has not
\* allocated survive the allocate step: under 'restorative' and 'minimal'
\* they are lost, under 'additive' and 'none' the player keeps what it had
\* less what it allocated; and the world was constructed with carryOver False
C22_GenerationModeDecides ==
    [][ StepIn("allocate") =>
          LET v == TheVector(state[1])
          IN  /\ \A vec \in Support(state'[1]), p \in DOMAIN v.resources :
                    IF generation \in {"restorative", "minimal"}
                    THEN vec.resources[p] = 0
                    ELSE \E action \in TurnActions(v, regionMap) :
                            vec.resources[p]
                               = v.resources[p] - SumAmounts(AllocatingBy(action, p))
              /\ carryOver = FALSE ]_vars


\* C23: a region is a legal target if and only if the enemy owns it and
\* somebody else owns a region of its neighbor list; a region without
\* neighbors, and one the enemy does not own, is never legal
C23_LegalTargets ==
    state # None =>
        \A vec \in Support(state[1]), obj \in DOMAIN regionMap :
            /\ obj \in legalObjects(vec, regionMap)
                  <=> /\ vec.owner[obj] = Enemy
                      /\ \E neighbor \in regionMap[obj].neighbors :
                            vec.owner[neighbor] # Enemy
            /\ regionMap[obj].neighbors = {} => obj \notin legalObjects(vec, regionMap)
            /\ vec.owner[obj] # Enemy => obj \notin legalObjects(vec, regionMap)

\* a player has won a region next to it: that region is no target any more,
\* and another region of the enemy is one
C23_Witness ==
    /\ state # None
    /\ \E vec \in Support(state[1]) :
          /\ legalObjects(vec, regionMap) # {}
          /\ \E obj \in DOMAIN regionMap :
                /\ vec.owner[obj] \in DOMAIN vec.resources
                /\ \A i \in 1..Len(starts) : starts[i] # obj
                /\ \E neighbor \in regionMap[obj].neighbors : vec.owner[neighbor] # Enemy

\* C26: after closeRegions the neighbor relation is symmetric and every
\* region named as a neighbor is an entry of the table, and closeRegions
\* applied once more changes nothing
C26_Closed ==
    stage = "closed" =>
        /\ \A a, b \in DOMAIN regionMap :
              b \in regionMap[a].neighbors <=> a \in regionMap[b].neighbors
        /\ \A a \in DOMAIN regionMap : regionMap[a].neighbors \subseteq DOMAIN regionMap
        /\ closeRegions(regionMap) = regionMap

\* closeRegions has added a region the file does not have and a link the
\* file gives in one direction only
C26_Witness ==
    /\ stage = "closed"
    /\ \E r \in DOMAIN regionMap : \A i \in 1..Len(mapFile[1]) : mapFile[1][i].name # r
    /\ \E i, j \in 1..Len(mapFile[1]) :
          /\ mapFile[1][j].name \in mapFile[1][i].neighbors
          /\ mapFile[1][i].name \notin mapFile[1][j].neighbors
          /\ mapFile[1][i].name \in regionMap[mapFile[1][j].name].neighbors

(***************************************************************************)
(* The rules of the game                                                   *)
(***************************************************************************)
\* the vectors of a scenario file that differ from a vector of the game in
\* the phase and in the resources of the players
Varied(vec) ==
    {[vec EXCEPT !.phase = phase, !.resources = resources] :
        phase \in {"generate", "allocate"},
        resources \in [DOMAIN vec.resources -> 0..1]}

\* C24: the game is terminated if and only if the phase is 'allocate' and
\* either the enemy owns no region or the resources of the players sum to
\* zero; it is never terminated in the phase 'generate'
C24_Termination ==
    state # None =>
        \A vec \in Support(state[1]) \cup Varied(TheVector(state[1])) :
            /\ terminated(vec)
                  <=> /\ vec.phase = "allocate"
                      /\ \/ \A obj \in DOMAIN vec.owner : vec.owner[obj] # Enemy
                         \/ SumOf(vec.resources, DOMAIN vec.resources) = 0
            /\ vec.phase = "generate" => ~terminated(vec)

\* the loop was left because the territory was all won
C24_Witness ==
    /\ stage = "over"
    /\ terminated(TheVector(state[1]))
    /\ TheVector(state[1]).round = 2

C27_PhaseAlternates ==
    [][ (StepIn("generate") \/ StepIn("allocate")) =>
          LET v == TheVector(state[1])
          IN  /\ \A action \in TurnActions(v, regionMap) :
                    /\ (\E a \in action : a.verb = allocateVerb)
                          => PhaseDynamics(action) = "generate"
                    /\ (\E a \in action : a.verb = "generate")
                          => PhaseDynamics(action) = "allocate"
                    /\ action = {} => PhaseDynamics(action) = "generate"
              /\ \A vec \in Support(state'[1]) :
                    vec.phase = (IF v.phase = "generate" THEN "allocate" ELSE "generate") ]_vars

\* the second allocate phase of a game in whose first nobody allocated
\* anything
C27_Witness ==
    /\ state # None
    /\ Cardinality(Support(state[1])) = 1
    /\ TheVector(state[1]).phase = "allocate"
    /\ TheVector(state[1]).round = 2
    /\ \A p \in DOMAIN TheVector(state[1]).resources :
          TheVector(state[1]).resources[p] = 2 * MinimumGain
    /\ legalObjects(TheVector(state[1]), regionMap) # {}

C29_OwnerOdds ==
    [][ StepIn("allocate") =>
          LET v == TheVector(state[1])
          IN  \E action \in TurnActions(v, regionMap), late \in BOOLEAN :
                 /\ state'[1] = StepResult(v, action, None, late, world)
                 /\ \A obj \in DOMAIN regionMap :
                       LET T == SumAmounts(AllocatingToThatObject(action, obj))
                           D == v.occupants[obj]
                           owners == Marginal(state'[1], "owner", obj)
                           stays == IF v.owner[obj] \in Support(owners)
                                    THEN owners.num[v.owner[obj]] ELSE 0
                       IN  IF T = 0
                           THEN Support(owners) = {v.owner[obj]}
                           ELSE /\ stays * (T + D) = D * owners.den
                                /\ (owners.den - stays) * (T + D) = T * owners.den
                                /\ \A vec \in Support(state'[1]) :
                                      vec.owner[obj] # v.owner[obj]
                                         => vec.owner[obj] \in {v.invader[obj], vec.invader[obj]}
    ]_vars

\* C30: when atoms allocate to a region, its invader becomes a subject whose
\* amount is the largest of theirs, each of the k such subjects with
\* probability 1/k; when nobody allocates to it in an allocate phase its
\* invader becomes the null agent, and in a generate phase the invader stays
C30_Invader ==
    [][ /\ StepIn("allocate") =>
              LET v == TheVector(state[1])
              IN  \E action \in TurnActions(v, regionMap), late \in BOOLEAN :
                     /\ state'[1] = StepResult(v, action, None, late, world)
                     /\ \A obj \in DOMAIN regionMap :
                           LET atoms == AllocatingToThatObject(action, obj)
                               leaders == {a.subject : a \in
                                             {x \in atoms : \A y \in atoms : y.amount <= x.amount}}
                               invader == Marginal(state'[1], "invader", obj)
                           IN  IF atoms = {}
                               THEN Support(invader) = {nullAgent}
                               ELSE /\ Support(invader) = leaders
                                    /\ \A p \in leaders :
                                          invader.num[p] * Cardinality(leaders) = invader.den
        /\ StepIn("generate") =>
              \A vec \in Support(state'[1]) : vec.invader = TheVector(state[1]).invader
    ]_vars
====
